---- MODULE Spec2Model ----
(***************************************************************************)
(* A model of the Pixelflut server of pixelflut.rs: the wire codec of      *)
(* src/src/pixel.rs, the connection handler `process` and the draw         *)
(* aggregator `draw_pixels` of src/src/server.rs, the tokio mpsc channel   *)
(* and RwLock they share, and the VecGrid canvas of examples/vec_grid.rs.  *)
(***************************************************************************)
EXTENDS Integers, Sequences, FiniteSets, TLC

(***************************************************************************)
(* Bounds of the model.                                                    *)
(***************************************************************************)
\* number of accepted connections
NumConns == 2
\* lines a connection sends before its stream ends
MaxLines == 2
\* PIXEL_BUFFER (1024 in the source) scaled down
ScaledPixelBuffer == 1
\* the 900 microseconds of the flush test, in clock ticks
ScaledFlushMicros == 1
\* width and height of the canvas (1024 x 768 in the example)
GridWidth == 2
GridHeight == 1
\* the most bytes a short write leaves unwritten
MaxShortfall == 1

Conns == 1..NumConns

(***************************************************************************)
(* Characters and strings.  A string is a sequence of one-character        *)
(* strings, so that parsing and formatting work on the bytes.              *)
(***************************************************************************)
DecDigits == <<"0", "1", "2", "3", "4", "5", "6", "7", "8", "9">>
HexDigits == <<"0", "1", "2", "3", "4", "5", "6", "7", "8", "9",
               "a", "b", "c", "d", "e", "f">>
HexUpper == <<"0", "1", "2", "3", "4", "5", "6", "7", "8", "9",
              "A", "B", "C", "D", "E", "F">>
WhiteSpace == {" ", "\t"}

Ok(v) == [ok |-> TRUE, val |-> v]
Err(e) == [ok |-> FALSE, err |-> e]
None == <<>>
Some(v) == <<v>>

IsDecDigit(ch) == \E i \in 1..10 : DecDigits[i] = ch
DecVal(ch) == (CHOOSE i \in 1..10 : DecDigits[i] = ch) - 1
IsHexDigit(ch) == \E i \in 1..16 : HexDigits[i] = ch \/ HexUpper[i] = ch
HexVal(ch) == (CHOOSE i \in 1..16 : HexDigits[i] = ch \/ HexUpper[i] = ch) - 1

\* str::split_whitespace: the maximal runs of non-whitespace characters
RECURSIVE SplitFrom(_, _, _)
SplitFrom(s, i, cur) ==
    IF i > Len(s)
    THEN IF cur = <<>> THEN <<>> ELSE <<cur>>
    ELSE IF s[i] \in WhiteSpace
         THEN IF cur = <<>> THEN SplitFrom(s, i + 1, <<>>)
                            ELSE <<cur>> \o SplitFrom(s, i + 1, <<>>)
         ELSE SplitFrom(s, i + 1, Append(cur, s[i]))
split_whitespace(s) == SplitFrom(s, 1, <<>>)

\* the tokens joined by single spaces
RECURSIVE Join(_)
Join(toks) ==
    IF toks = <<>> THEN <<>>
    ELSE IF Len(toks) = 1 THEN toks[1]
    ELSE toks[1] \o <<" ">> \o Join(Tail(toks))

(***************************************************************************)
(* Integer parsing and formatting of the standard library.                 *)
(***************************************************************************)
\* the digits of u32::MAX = 4294967295
U32MaxDigits == <<4, 2, 9, 4, 9, 6, 7, 2, 9, 5>>

RECURSIVE StripZeros(_)
StripZeros(ds) ==
    IF ds # <<>> /\ ds[1] = 0 THEN StripZeros(Tail(ds)) ELSE ds

RECURSIVE DigitsGreater(_, _)
\* ds > es for digit sequences of equal length
DigitsGreater(ds, es) ==
    IF ds = <<>> THEN FALSE
    ELSE IF ds[1] # es[1] THEN ds[1] > es[1]
    ELSE DigitsGreater(Tail(ds), Tail(es))

RECURSIVE RadixValue(_, _, _)
RadixValue(ds, radix, acc) ==
    IF ds = <<>> THEN acc ELSE RadixValue(Tail(ds), radix, acc * radix + ds[1])

\* the values of the decimal digits a string starts with
RECURSIVE DigitPrefix(_)
DigitPrefix(body) ==
    IF body = <<>> \/ ~IsDecDigit(body[1]) THEN <<>>
    ELSE <<DecVal(body[1])>> \o DigitPrefix(Tail(body))

\* the number of these decimal digits is above u32::MAX
ExceedsU32(ds) ==
    LET z == StripZeros(ds) IN
    Len(z) > 10 \/ (Len(z) = 10 /\ DigitsGreater(z, U32MaxDigits))

\* faulty variant: a sign is not accepted
ParseU32NoSign(s) ==
    IF s = <<>> THEN Err(<<"ParseInt", "Empty">>)
    ELSE LET ds == DigitPrefix(s) IN
         IF ExceedsU32(ds) THEN Err(<<"ParseInt", "PosOverflow">>)
         ELSE IF Len(ds) < Len(s) THEN Err(<<"ParseInt", "InvalidDigit">>)
         ELSE Ok(RadixValue(StripZeros(ds), 10, 0))
\* <u32 as FromStr>::from_str: an optional "+", then decimal digits, read
\* from the left: the first character that is no digit or the first digit
\* that takes the value above u32::MAX ends the parse with its error
ParseU32(s) ==
    IF s = <<>> THEN Err(<<"ParseInt", "Empty">>)
    ELSE LET body == IF s[1] = "+" THEN Tail(s) ELSE s
             ds == DigitPrefix(body) IN
         IF body = <<>> THEN Err(<<"ParseInt", "InvalidDigit">>)
         ELSE IF ExceedsU32(ds) THEN Err(<<"ParseInt", "PosOverflow">>)
         ELSE IF Len(ds) < Len(body) THEN Err(<<"ParseInt", "InvalidDigit">>)
         ELSE Ok(RadixValue(StripZeros(ds), 10, 0))

\* u8::from_str_radix(s, 16): an optional "+", then hex digits of either case
ParseHexU8(s) ==
    IF s = <<>> THEN Err(<<"ParseInt", "Empty">>)
    ELSE LET body == IF s[1] = "+" THEN Tail(s) ELSE s IN
         IF body = <<>> \/ \E i \in 1..Len(body) : ~IsHexDigit(body[i])
         THEN Err(<<"ParseInt", "InvalidDigit">>)
         ELSE LET ds == StripZeros([i \in 1..Len(body) |-> HexVal(body[i])]) IN
              IF Len(ds) > 2 THEN Err(<<"ParseInt", "PosOverflow">>)
              ELSE Ok(RadixValue(ds, 16, 0))

\* Display of an unsigned integer: decimal, no padding
RECURSIVE DecStr(_)
DecStr(n) ==
    IF n < 10 THEN <<DecDigits[n + 1]>>
    ELSE Append(DecStr(n \div 10), DecDigits[(n % 10) + 1])

\* faulty variant: {:x}, no padding
Hex2NoPad(b) ==
    IF b < 16 THEN <<HexDigits[b + 1]>>
    ELSE <<HexDigits[(b \div 16) + 1], HexDigits[(b % 16) + 1]>>
\* faulty variant: {:02X}, upper case
Hex2Upper(b) == <<HexUpper[(b \div 16) + 1], HexUpper[(b % 16) + 1]>>
\* {:02x} of a u8
Hex2(b) == <<HexDigits[(b \div 16) + 1], HexDigits[(b % 16) + 1]>>

(***************************************************************************)
(* pixel.rs: Color, Coordinate, Pixel and their Display / FromStr.         *)
(***************************************************************************)
rgb(r, g, b) == [r |-> r, g |-> g, b |-> b, a |-> None]
rgba(r, g, b, a) == [r |-> r, g |-> g, b |-> b, a |-> Some(a)]
NewCoordinate(x, y) == [x |-> x, y |-> y]
NewPixel(coordinate, color) == [coordinate |-> coordinate, color |-> color]

\* impl fmt::Display for Color
FmtColor(c) ==
    IF c.a # None
    THEN Hex2(c.r) \o Hex2(c.g) \o Hex2(c.b) \o Hex2(c.a[1])
    ELSE Hex2(c.r) \o Hex2(c.g) \o Hex2(c.b)

\* impl fmt::Display for Coordinate
FmtCoordinate(p) == <<"P", "X", " ">> \o DecStr(p.x) \o <<" ">> \o DecStr(p.y)

\* impl fmt::Display for Pixel
FmtPixel(px) == FmtCoordinate(px.coordinate) \o <<" ">> \o FmtColor(px.color)

\* A str is UTF-8: a character outside ASCII takes more than one byte.  The
\* string "U+00E9" stands for the one character e-acute, two bytes long.
TwoByteChars == {"U+00E9"}
ContinuationByte == "continuation byte"

\* str::as_bytes: a two-byte character is its own first byte, then a
\* continuation byte
RECURSIVE as_bytes(_)
as_bytes(s) ==
    IF s = <<>> THEN <<>>
    ELSE (IF Head(s) \in TwoByteChars THEN <<Head(s), ContinuationByte>>
          ELSE <<Head(s)>>) \o as_bytes(Tail(s))

\* str::is_char_boundary, for a byte offset i counted from 0
is_char_boundary(b, i) ==
    i = 0 \/ i = Len(b) \/ (i < Len(b) /\ b[i + 1] # ContinuationByte)

\* the characters of the bytes b[from..to]
SliceChars(b, from, to) ==
    LET IsFirstByte(x) == x # ContinuationByte IN
    SelectSeq(SubSeq(b, from + 1, to), IsFirstByte)

\* what a task that panicked leaves instead of a value
Panic == Err(<<"panic">>)
IsPanic(r) == ~r.ok /\ r.err = <<"panic">>

\* u8::from_str_radix(&s[0..2], 16)?, u8::from_str_radix(&s[2..4], 16)?, ...
\* in the order of evaluation: &s[i..j] panics unless i and j are character
\* boundaries, `?` returns the first error
RECURSIVE Channels(_, _, _, _)
Channels(b, k, n, acc) ==
    IF k > n THEN Ok(acc)
    ELSE IF ~(is_char_boundary(b, 2 * k - 2) /\ is_char_boundary(b, 2 * k))
    THEN Panic
    ELSE LET r == ParseHexU8(SliceChars(b, 2 * k - 2, 2 * k)) IN
         IF ~r.ok THEN Err(<<"ParseColor">> \o r.err)
         ELSE Channels(b, k + 1, n, Append(acc, r.val))

\* impl FromStr for Color; s.len() is the length in bytes
ParseColor(s) ==
    LET b == as_bytes(s) IN
    IF Len(b) = 6
    THEN LET ch == Channels(b, 1, 3, <<>>) IN
         IF ch.ok THEN Ok(rgb(ch.val[1], ch.val[2], ch.val[3])) ELSE ch
    ELSE IF Len(b) = 8
    THEN LET ch == Channels(b, 1, 4, <<>>) IN
         IF ch.ok THEN Ok(rgba(ch.val[1], ch.val[2], ch.val[3], ch.val[4]))
         ELSE ch
    ELSE Err(<<"ParseColor", "WrongSize">>)

\* impl FromStr for Coordinate
ParseCoordinate(s) ==
    LET parts == split_whitespace(s) IN
    IF parts = <<>> \/ parts[1] # <<"P", "X">> THEN Err(<<"WrongFormat">>)
    ELSE IF Len(parts) < 2 THEN Err(<<"WrongFormat">>)
    ELSE IF ~ParseU32(parts[2]).ok THEN Err(ParseU32(parts[2]).err)
    ELSE IF Len(parts) < 3 THEN Err(<<"WrongFormat">>)
    ELSE IF ~ParseU32(parts[3]).ok THEN Err(ParseU32(parts[3]).err)
    ELSE IF Len(parts) > 3 THEN Err(<<"WrongFormat">>)
    ELSE Ok(NewCoordinate(ParseU32(parts[2]).val, ParseU32(parts[3]).val))

\* faulty variant: what follows the color is not looked at
ParsePixelIgnoresRest(s) ==
    LET parts == split_whitespace(s) IN
    IF parts = <<>> \/ parts[1] # <<"P", "X">> THEN Err(<<"WrongFormat">>)
    ELSE IF Len(parts) < 2 THEN Err(<<"WrongFormat">>)
    ELSE IF ~ParseU32(parts[2]).ok THEN Err(ParseU32(parts[2]).err)
    ELSE IF Len(parts) < 3 THEN Err(<<"WrongFormat">>)
    ELSE IF ~ParseU32(parts[3]).ok THEN Err(ParseU32(parts[3]).err)
    ELSE IF Len(parts) < 4 THEN Err(<<"WrongFormat">>)
    ELSE IF ~ParseColor(parts[4]).ok THEN Err(ParseColor(parts[4]).err)
    ELSE Ok(NewPixel(NewCoordinate(ParseU32(parts[2]).val, ParseU32(parts[3]).val),
                     ParseColor(parts[4]).val))
\* impl FromStr for Pixel
ParsePixel(s) ==
    LET parts == split_whitespace(s) IN
    IF parts = <<>> \/ parts[1] # <<"P", "X">> THEN Err(<<"WrongFormat">>)
    ELSE IF Len(parts) < 2 THEN Err(<<"WrongFormat">>)
    ELSE IF ~ParseU32(parts[2]).ok THEN Err(ParseU32(parts[2]).err)
    ELSE IF Len(parts) < 3 THEN Err(<<"WrongFormat">>)
    ELSE IF ~ParseU32(parts[3]).ok THEN Err(ParseU32(parts[3]).err)
    ELSE IF Len(parts) < 4 THEN Err(<<"WrongFormat">>)
    ELSE IF ~ParseColor(parts[4]).ok THEN Err(ParseColor(parts[4]).err)
    ELSE IF Len(parts) > 4 THEN Err(<<"WrongFormat">>)
    ELSE Ok(NewPixel(NewCoordinate(ParseU32(parts[2]).val, ParseU32(parts[3]).val),
                     ParseColor(parts[4]).val))

(***************************************************************************)
(* grid.rs: Size; examples/vec_grid.rs: the VecGrid canvas.                *)
(***************************************************************************)
NewSize(x, y) == [x |-> x, y |-> y]

\* impl fmt::Display for Size (server.rs)
FmtSize(sz) == <<"S", "I", "Z", "E", " ">> \o DecStr(sz.x) \o <<" ">> \o DecStr(sz.y)

\* VecGrid::new: every cell black
VecGridNew(sz) ==
    [size |-> sz,
     frame |-> [x \in 0..(sz.x - 1) |-> [y \in 0..(sz.y - 1) |-> rgb(0, 0, 0)]]]

\* Grid::size
GridSize(g) == g.size

\* Grid::draw: out-of-range pixels are ignored
GridDraw(g, px) ==
    LET x == px.coordinate.x
        y == px.coordinate.y IN
    IF x < g.size.x /\ y < g.size.y
    THEN [g EXCEPT !.frame[x][y] = px.color]
    ELSE g

\* Grid::fetch: None outside the canvas
GridFetch(g, coord) ==
    IF coord.x < g.size.x /\ coord.y < g.size.y
    THEN Some(NewPixel(coord, g.frame[coord.x][coord.y]))
    ELSE None

(***************************************************************************)
(* server.rs: constants.                                                   *)
(***************************************************************************)
PIXEL_BUFFER == ScaledPixelBuffer
\* the 900 of `time.elapsed().as_micros() > 900`
FLUSH_MICROS == ScaledFlushMicros

HELP ==
    <<"H", "E", "L", "P", " ", "P", "i", "x", "e", "l", "f", "l", "u", "t",
      " ", "C", "o", "m", "m", "a", "n", "d", "s", ":", "\n", "H", "E", "L",
      "P", " ", "-", " ", "P", "X", " ", "<", "x", ">", " ", "<", "y", ">",
      " ", "<", "R", "R", "G", "G", "B", "B", "[", "A", "A", "]", ">", "\n",
      "H", "E", "L", "P", " ", "-", " ", "P", "X", " ", "<", "x", ">", " ",
      "<", "y", ">", " ", " ", " ", ">", ">", " ", " ", "P", "X", " ", "<",
      "x", ">", " ", "<", "y", ">", " ", "<", "R", "R", "G", "G", "B", "B",
      ">", "\n", "H", "E", "L", "P", " ", "-", " ", "S", "I", "Z", "E", " ",
      " ", " ", " ", " ", " ", " ", " ", " ", ">", ">", " ", " ", "S", "I",
      "Z", "E", " ", "<", "w", "i", "d", "t", "h", ">", " ", "<", "h", "e",
      "i", "g", "h", "t", ">", "\n", "H", "E", "L", "P", " ", "-", " ", "H",
      "E", "L", "P", " ", " ", " ", " ", " ", " ", " ", " ", " ", ">", ">",
      " ", " ", "H", "E", "L", "P", " ", ".", ".", ".">>

\* format!("{}\n", x)
WithNewline(s) == Append(s, "\n")

(***************************************************************************)
(* The lines a client may send.                                            *)
(***************************************************************************)
tPX == <<"P", "X">>
tSIZE == <<"S", "I", "Z", "E">>
tHELP == <<"H", "E", "L", "P">>
LineDrawRed == Join(<<tPX, <<"0">>, <<"0">>, <<"f", "f", "0", "f", "0", "0">> >>)
LineDrawGreenA ==
    Join(<<tPX, <<"0">>, <<"0">>, <<"0", "0", "f", "f", "0", "0", "a", "a">> >>)
LineDrawBlue == Join(<<tPX, <<"1">>, <<"0">>, <<"0", "0", "0", "0", "f", "f">> >>)
LineQuery == Join(<<tPX, <<"0">>, <<"0">> >>)
LineQueryOutside == Join(<<tPX, <<"5">>, <<"0">> >>)
LineSize == tSIZE
LineHelp == tHELP
LineUnknownVerb == Join(<<<<"n", "o", "p", "e">>, <<"1">>, <<"2">>, <<"3">> >>)
LineEmpty == <<>>
LineShortPX == Join(<<tPX, <<"1", "0">> >>)
LineBadInt == Join(<<tPX, <<"x">>, <<"0">> >>)
LineBadIntDraw ==
    Join(<<tPX, <<"1">>, <<"y">>, <<"f", "f", "0", "f", "0", "0">> >>)
LineBadColor == Join(<<tPX, <<"1">>, <<"2">>, <<"z", "z", "z", "z", "z", "z">> >>)
LineShortColor == Join(<<tPX, <<"1">>, <<"2">>, <<"a", "b", "c", "d", "e">> >>)

DrawLines == {LineDrawRed, LineDrawGreenA}
ValidLines == DrawLines \cup {LineQuery, LineQueryOutside, LineSize, LineHelp}
InvalidLines ==
    {LineUnknownVerb, LineEmpty, LineShortPX, LineBadInt, LineBadIntDraw,
     LineBadColor, LineShortColor}
Lines == ValidLines \cup InvalidLines

(***************************************************************************)
(* State.                                                                  *)
(***************************************************************************)
VARIABLES
    grid,       \* the canvas behind Arc<RwLock<G>>
    lock,       \* the RwLock: readers holding it, writer holding / waiting
    queue,      \* the mpsc channel of capacity PIXEL_BUFFER; each pixel carries
                \* the connection and send number it came from (history)
    buf,        \* draw_pixels: the local batch
    elapsed,    \* draw_pixels: time.elapsed(), in ticks, saturating
    aggPc,      \* draw_pixels: "recv", "write_lock" or "drawing"
    pc,         \* process: where each connection's handler is
    line,       \* process: the line being handled
    pending,    \* process: the response to write or the pixel to send
    out,        \* the responses written to each socket
    result,     \* None while the handler runs, else what process returned
    nlines,     \* lines read from each connection
    drawn,      \* history: the draw calls made, in order
    submitted,  \* history: the pixels each connection's send calls accepted
    script,     \* scripted runs: the line each client sends; <<>> otherwise
    probe       \* codec runs: a function of pixel.rs / server.rs, its
                \* argument and its result; NoProbe otherwise

vars == <<grid, lock, queue, buf, elapsed, aggPc, pc, line, pending, out,
          result, nlines, drawn, submitted, script, probe>>
aggVars == <<grid, lock, queue, buf, elapsed, aggPc, drawn>>
connVars == <<pc, line, pending, out, result, nlines, submitted>>
obsVars == <<script, probe>>

NoProbe == [fn |-> "none", kind |-> "none", arg |-> <<>>, res |-> <<>>, src |-> <<>>]
NoScript == [c \in Conns |-> <<>>]

\* the server after Server::new and Server::start up to the accept loop, every
\* connection accepted
ServerInit ==
    /\ grid = VecGridNew(NewSize(GridWidth, GridHeight))
    /\ lock = [readers |-> {}, writer |-> FALSE, waiting |-> FALSE]
    /\ queue = <<>>
    /\ buf = <<>>
    /\ elapsed = 0
    /\ aggPc = "recv"
    /\ pc = [c \in Conns |-> "next_line"]
    /\ line = [c \in Conns |-> <<>>]
    /\ pending = [c \in Conns |-> None]
    /\ out = [c \in Conns |-> <<>>]
    /\ result = [c \in Conns |-> None]
    /\ nlines = [c \in Conns |-> 0]
    /\ drawn = <<>>
    /\ submitted = [c \in Conns |-> <<>>]

\* clients send any of Lines, in any order
Init ==
    /\ ServerInit
    /\ script = NoScript
    /\ probe = NoProbe

(***************************************************************************)
(* tokio::sync::RwLock: a FIFO-fair lock; a waiting writer holds back      *)
(* later readers.                                                          *)
(***************************************************************************)
\* faulty variant: read() granted whatever the writer does
CanReadAlways(l) == TRUE
CanRead(l) == ~l.writer /\ ~l.waiting
CanWrite(l) == ~l.writer /\ l.readers = {}
ReadLocked(l, c) == [l EXCEPT !.readers = @ \cup {c}]
\* faulty variant: the read guard is not released
ReadUnlockedLeak(l, c) == l
ReadUnlocked(l, c) == [l EXCEPT !.readers = @ \ {c}]
WriteRequested(l) == [l EXCEPT !.waiting = TRUE]
WriteLocked(l) == [l EXCEPT !.writer = TRUE, !.waiting = FALSE]
WriteUnlocked(l) == [l EXCEPT !.writer = FALSE]

(***************************************************************************)
(* draw_pixels: the aggregator task.                                       *)
(***************************************************************************)
\* faulty variant: the size of the batch is not looked at
ShouldFlushTimerOnly(b, e) == b # <<>> /\ e > FLUSH_MICROS
\* the test of the `if` after the receive
ShouldFlush(b, e) == b # <<>> /\ (Len(b) > PIXEL_BUFFER \/ e > FLUSH_MICROS)

\* faulty variant: the batch is walked from its newest pixel to its oldest
DrawCallsReversed(b) == [i \in 1..Len(b) |-> b[Len(b) + 1 - i]]
\* faulty variant: the iteration stops one pixel short
DrawCallsSkipLast(b) == SubSeq(b, 1, Len(b) - 1)
\* buf.iter(): the pixels grid.draw is called with, in order
DrawCalls(b) == b

\* for_each(|px| grid.draw(px))
RECURSIVE DrawAll(_, _)
DrawAll(g, calls) ==
    IF calls = <<>> THEN g ELSE DrawAll(GridDraw(g, calls[1].px), Tail(calls))

\* faulty variant: the first pixel of a batch restarts the timer
AggRecvRestartsTimer ==
    /\ aggPc = "recv"
    /\ queue # <<>>
    /\ queue' = Tail(queue)
    /\ buf' = Append(buf, Head(queue))
    /\ elapsed' = IF buf = <<>> THEN 0 ELSE elapsed
    /\ IF ShouldFlush(Append(buf, Head(queue)), elapsed')
       THEN aggPc' = "write_lock" /\ lock' = WriteRequested(lock)
       ELSE aggPc' = "recv" /\ lock' = lock
    /\ UNCHANGED <<grid, drawn>>
    /\ UNCHANGED connVars
    /\ UNCHANGED obsVars
\* rx.recv().await returns a pixel; buf.push(px); the flush test
AggRecv ==
    /\ aggPc = "recv"
    /\ queue # <<>>
    /\ queue' = Tail(queue)
    /\ buf' = Append(buf, Head(queue))
    /\ IF ShouldFlush(Append(buf, Head(queue)), elapsed)
       THEN aggPc' = "write_lock" /\ lock' = WriteRequested(lock)
       ELSE aggPc' = "recv" /\ lock' = lock
    /\ UNCHANGED <<grid, elapsed, drawn>>
    /\ UNCHANGED connVars
    /\ UNCHANGED obsVars

\* grid.write().await is granted
AggWriteLock ==
    /\ aggPc = "write_lock"
    /\ CanWrite(lock)
    /\ lock' = WriteLocked(lock)
    /\ aggPc' = "drawing"
    /\ UNCHANGED <<grid, queue, buf, elapsed, drawn>>
    /\ UNCHANGED connVars
    /\ UNCHANGED obsVars

\* the draws of the batch, buf.clear(), time = Instant::now(), guard dropped
AggFlush ==
    /\ aggPc = "drawing"
    /\ grid' = DrawAll(grid, DrawCalls(buf))
    /\ drawn' = drawn \o DrawCalls(buf)
    /\ buf' = <<>>
    /\ elapsed' = 0
    /\ lock' = WriteUnlocked(lock)
    /\ aggPc' = "recv"
    /\ UNCHANGED queue
    /\ UNCHANGED connVars
    /\ UNCHANGED obsVars

\* the clock advances
Tick ==
    /\ elapsed <= FLUSH_MICROS
    /\ elapsed' = elapsed + 1
    /\ UNCHANGED <<grid, lock, queue, buf, aggPc, drawn>>
    /\ UNCHANGED connVars
    /\ UNCHANGED obsVars

(***************************************************************************)
(* process: the handler task of one connection.                            *)
(***************************************************************************)
\* faulty variant: a bad line is skipped and the loop goes on
ReturnedKeepsGoing(c, r) ==
    /\ pc' = [pc EXCEPT ![c] = "next_line"]
    /\ line' = [line EXCEPT ![c] = <<>>]
    /\ pending' = [pending EXCEPT ![c] = None]
    /\ UNCHANGED result
\* `return Err(e)` / `?`: the task ends, its locals are dropped
Returned(c, r) ==
    /\ pc' = [pc EXCEPT ![c] = "closed"]
    /\ result' = [result EXCEPT ![c] = Some(r)]
    /\ line' = [line EXCEPT ![c] = <<>>]
    /\ pending' = [pending EXCEPT ![c] = None]

\* back to `lines.next_line().await`
NextIteration(c) ==
    /\ pc' = [pc EXCEPT ![c] = "next_line"]
    /\ line' = [line EXCEPT ![c] = <<>>]
    /\ pending' = [pending EXCEPT ![c] = None]
    /\ UNCHANGED result

\* where the `match` on the first token and on parts.count() sends a line
Dispatch(l) ==
    LET parts == split_whitespace(l) IN
    IF parts = <<>> THEN "unknown"
    ELSE IF parts[1] = tPX
         THEN IF Len(parts) - 1 = 2 THEN "query"
              ELSE IF Len(parts) - 1 = 3 THEN "draw"
              ELSE "unknown"
    ELSE IF parts[1] = tSIZE THEN "size"
    ELSE IF parts[1] = tHELP THEN "help"
    ELSE "unknown"

\* lines.next_line().await yields a line; the synchronous code up to the
\* next await
NextLine(c, l) ==
    /\ pc[c] = "next_line"
    /\ nlines[c] < MaxLines
    /\ nlines' = [nlines EXCEPT ![c] = @ + 1]
    /\ CASE Dispatch(l) = "query" ->
              /\ pc' = [pc EXCEPT ![c] = "read_lock"]
              /\ line' = [line EXCEPT ![c] = l]
              /\ UNCHANGED <<pending, result>>
         [] Dispatch(l) = "draw" ->
              IF ParsePixel(l).ok
              THEN /\ pc' = [pc EXCEPT ![c] = "send"]
                   /\ line' = [line EXCEPT ![c] = l]
                   /\ pending' = [pending EXCEPT ![c] = Some(ParsePixel(l).val)]
                   /\ UNCHANGED result
              ELSE Returned(c, Err(ParsePixel(l).err))
         [] Dispatch(l) = "size" ->
              /\ pc' = [pc EXCEPT ![c] = "read_lock"]
              /\ line' = [line EXCEPT ![c] = l]
              /\ UNCHANGED <<pending, result>>
         [] Dispatch(l) = "help" ->
              /\ pc' = [pc EXCEPT ![c] = "write"]
              /\ line' = [line EXCEPT ![c] = l]
              /\ pending' = [pending EXCEPT ![c] = Some(WithNewline(HELP))]
              /\ UNCHANGED result
         [] OTHER -> Returned(c, Err(<<"UnknownCommand">>))
    /\ UNCHANGED <<out, submitted>>
    /\ UNCHANGED aggVars
    /\ UNCHANGED obsVars

\* next_line() yields None: the stream ended, process returns Ok(())
EndOfStream(c) ==
    /\ pc[c] = "next_line"
    /\ Returned(c, Ok(<<>>))
    /\ UNCHANGED <<out, nlines, submitted>>
    /\ UNCHANGED aggVars
    /\ UNCHANGED obsVars

\* next_line() fails
ReadError(c) ==
    /\ pc[c] = "next_line"
    /\ Returned(c, Err(<<"Io">>))
    /\ UNCHANGED <<out, nlines, submitted>>
    /\ UNCHANGED aggVars
    /\ UNCHANGED obsVars

\* grid.read().await is granted
ReadLock(c) ==
    /\ pc[c] = "read_lock"
    /\ CanRead(lock)
    /\ lock' = ReadLocked(lock, c)
    /\ pc' = [pc EXCEPT ![c] = IF Dispatch(line[c]) = "size" THEN "size" ELSE "fetch"]
    /\ UNCHANGED <<line, pending, out, result, nlines, submitted>>
    /\ UNCHANGED <<grid, queue, buf, elapsed, aggPc, drawn>>
    /\ UNCHANGED obsVars

\* faulty variant: the read guard lives until the end of the loop body, so it
\* is still held while the response is written
FetchKeepsGuard(c) ==
    /\ pc[c] = "fetch"
    /\ LET coord == ParseCoordinate(line[c]) IN
       IF ~coord.ok
       THEN Returned(c, Err(coord.err)) /\ lock' = ReadUnlocked(lock, c)
       ELSE LET pixel == GridFetch(grid, coord.val) IN
            IF pixel # None
            THEN /\ pc' = [pc EXCEPT ![c] = "write"]
                 /\ pending' = [pending EXCEPT ![c] = Some(WithNewline(FmtPixel(pixel[1])))]
                 /\ lock' = lock
                 /\ UNCHANGED <<line, result>>
            ELSE NextIteration(c) /\ lock' = ReadUnlocked(lock, c)
    /\ UNCHANGED <<out, nlines, submitted>>
    /\ UNCHANGED <<grid, queue, buf, elapsed, aggPc, drawn>>
    /\ UNCHANGED obsVars
\* faulty variant: the read also sees the pixels still in the batch and the queue
FetchSeesPending(c) ==
    /\ pc[c] = "fetch"
    /\ lock' = [lock EXCEPT !.readers = @ \ {c}]
    /\ LET coord == ParseCoordinate(line[c]) IN
       IF ~coord.ok
       THEN /\ pc' = [pc EXCEPT ![c] = "closed"]
            /\ result' = [result EXCEPT ![c] = Some(Err(coord.err))]
            /\ line' = [line EXCEPT ![c] = <<>>]
            /\ pending' = [pending EXCEPT ![c] = None]
       ELSE LET pixel == GridFetch(DrawAll(grid, buf \o queue), coord.val) IN
            IF pixel # None
            THEN /\ pc' = [pc EXCEPT ![c] = "write"]
                 /\ pending' = [pending EXCEPT ![c] = Some(WithNewline(FmtPixel(pixel[1])))]
                 /\ UNCHANGED <<line, result>>
            ELSE /\ pc' = [pc EXCEPT ![c] = "next_line"]
                 /\ line' = [line EXCEPT ![c] = <<>>]
                 /\ pending' = [pending EXCEPT ![c] = None]
                 /\ UNCHANGED result
    /\ UNCHANGED <<out, nlines, submitted>>
    /\ UNCHANGED <<grid, queue, buf, elapsed, aggPc, drawn>>
    /\ UNCHANGED obsVars
\* under the read guard: grid.fetch(line.parse()?), then the guard is dropped
Fetch(c) ==
    /\ pc[c] = "fetch"
    /\ lock' = ReadUnlocked(lock, c)
    /\ LET coord == ParseCoordinate(line[c]) IN
       IF ~coord.ok THEN Returned(c, Err(coord.err))
       ELSE LET pixel == GridFetch(grid, coord.val) IN
            IF pixel # None
            THEN /\ pc' = [pc EXCEPT ![c] = "write"]
                 /\ pending' = [pending EXCEPT ![c] = Some(WithNewline(FmtPixel(pixel[1])))]
                 /\ UNCHANGED <<line, result>>
            ELSE NextIteration(c)
    /\ UNCHANGED <<out, nlines, submitted>>
    /\ UNCHANGED <<grid, queue, buf, elapsed, aggPc, drawn>>
    /\ UNCHANGED obsVars

\* under the read guard: format!("{}\n", grid.size()), then the guard is dropped
Size(c) ==
    /\ pc[c] = "size"
    /\ lock' = ReadUnlocked(lock, c)
    /\ pc' = [pc EXCEPT ![c] = "write"]
    /\ pending' = [pending EXCEPT ![c] = Some(WithNewline(FmtSize(GridSize(grid))))]
    /\ UNCHANGED <<line, result>>
    /\ UNCHANGED <<out, nlines, submitted>>
    /\ UNCHANGED <<grid, queue, buf, elapsed, aggPc, drawn>>
    /\ UNCHANGED obsVars

\* the counts n of Ok(n) that one wr.write(bytes) call may return: write makes
\* one attempt and may take only a part of the bytes
Written(bytes) == {n \in 1..Len(bytes) : Len(bytes) - n <= MaxShortfall}

\* wr.write(bytes).await returns Ok(n); n is not looked at
Write(c) ==
    /\ pc[c] = "write"
    /\ \E n \in Written(pending[c][1]) :
           out' = [out EXCEPT ![c] = Append(@, SubSeq(pending[c][1], 1, n))]
    /\ NextIteration(c)
    /\ UNCHANGED <<nlines, submitted>>
    /\ UNCHANGED aggVars
    /\ UNCHANGED obsVars

\* wr.write(bytes).await fails
WriteError(c) ==
    /\ pc[c] = "write"
    /\ Returned(c, Err(<<"Io">>))
    /\ UNCHANGED <<out, nlines, submitted>>
    /\ UNCHANGED aggVars
    /\ UNCHANGED obsVars

\* faulty variant: an unbounded channel
HasRoomAlways(q) == TRUE
\* a channel of capacity PIXEL_BUFFER has room
HasRoom(q) == Len(q) < PIXEL_BUFFER

\* faulty variant: the handler draws the pixel itself as well
SendDrawsDirectly(c) ==
    /\ pc[c] = "send"
    /\ Len(queue) < PIXEL_BUFFER
    /\ queue' = Append(queue, [px |-> pending[c][1], src |-> c,
                                k |-> Len(submitted[c]) + 1])
    /\ submitted' = [submitted EXCEPT ![c] = Append(@, pending[c][1])]
    /\ grid' = GridDraw(grid, pending[c][1])
    /\ pc' = [pc EXCEPT ![c] = "next_line"]
    /\ line' = [line EXCEPT ![c] = <<>>]
    /\ pending' = [pending EXCEPT ![c] = None]
    /\ UNCHANGED <<result, out, nlines, lock, buf, elapsed, aggPc, drawn>>
    /\ UNCHANGED obsVars
\* tx.send(pixel).await completes
Send(c) ==
    /\ pc[c] = "send"
    /\ HasRoom(queue)
    /\ queue' = Append(queue, [px |-> pending[c][1], src |-> c,
                                k |-> Len(submitted[c]) + 1])
    /\ submitted' = [submitted EXCEPT ![c] = Append(@, pending[c][1])]
    /\ NextIteration(c)
    /\ UNCHANGED <<out, nlines>>
    /\ UNCHANGED <<grid, lock, buf, elapsed, aggPc, drawn>>
    /\ UNCHANGED obsVars

(***************************************************************************)
(* The system.                                                             *)
(***************************************************************************)
ConnStep(c) ==
    \/ \E l \in Lines : NextLine(c, l)
    \/ EndOfStream(c)
    \/ ReadError(c)
    \/ ReadLock(c)
    \/ Fetch(c)
    \/ Size(c)
    \/ Write(c)
    \/ WriteError(c)
    \/ Send(c)

AggStep == AggRecv \/ AggWriteLock \/ AggFlush

Next == (\E c \in Conns : ConnStep(c)) \/ AggStep \/ Tick

Spec == Init /\ [][Next]_vars

\* tokio schedules every task that can run: the aggregator, and each handler
\* at a step that does not wait for the client; the clock does not stop
HandlerStep(c) == ReadLock(c) \/ Fetch(c) \/ Size(c) \/ Write(c) \/ Send(c)
Fairness ==
    /\ WF_vars(AggStep)
    /\ WF_vars(Tick)
    /\ \A c \in Conns : WF_vars(HandlerStep(c))

\* the clients send valid Draw lines only, and no socket fails
DrawNext ==
    \/ \E c \in Conns : (\E l \in DrawLines : NextLine(c, l)) \/ Send(c)
    \/ AggStep
    \/ Tick
DrawFairSpec == Init /\ [][DrawNext]_vars /\ Fairness

(***************************************************************************)
(* Codec runs: one function of pixel.rs or server.rs applied to one input. *)
(* probe.fn names the function, probe.arg is its argument, probe.res its   *)
(* result and probe.src what the argument was made from: the tokens of a   *)
(* line, or the value a text was formatted from.                           *)
(***************************************************************************)
\* pieces a color token is put together from
MaxPieces == 5
\* characters of an integer token
MaxIntLen == 3
\* tokens of a line
MaxTokens == 5
\* u8::MAX
MaxChannel == 255

\* the strings put together from at most n of the pieces
RECURSIVE Concats(_, _)
Concats(pieces, n) ==
    IF n = 0 THEN {<<>>}
    ELSE LET S == Concats(pieces, n - 1) IN
         S \cup {s \o p : s \in S, p \in pieces}

\* the lists of at most n of the tokens
RECURSIVE TokenLists(_, _)
TokenLists(toks, n) ==
    IF n = 0 THEN {<<>>}
    ELSE LET S == TokenLists(toks, n - 1) IN
         S \cup {Append(s, t) : s \in S, t \in toks}

ColorPieces ==
    {<<"0", "f">>, <<"A", "b">>, <<"+", "f">>, <<"z", "z">>, <<"U+00E9">>,
     <<"f">>}
ColorTokens == Concats(ColorPieces, MaxPieces)
IntPieces == {<<"0">>, <<"4">>, <<"9">>, <<"+">>, <<"-">>, <<"x">>}
\* tokens around i32::MAX (the largest value held here) and past u32::MAX
LongIntTokens ==
    {<<"2", "1", "4", "7", "4", "8", "3", "6", "4", "7">>,
     <<"+", "2", "1", "4", "7", "4", "8", "3", "6", "4", "7">>,
     <<"0", "0", "0", "0", "0", "0", "0", "0", "0", "0", "0", "0", "7">>,
     <<"4", "2", "9", "4", "9", "6", "7", "2", "9", "6">>,
     <<"4", "2", "9", "4", "9", "6", "7", "3", "0", "0">>,
     <<"9", "9", "9", "9", "9", "9", "9", "9", "9", "9", "9">>,
     <<"+", "4", "2", "9", "4", "9", "6", "7", "2", "9", "6">>,
     <<"0", "0", "4", "2", "9", "4", "9", "6", "7", "2", "9", "6">>,
     <<"9", "9", "9", "9", "9", "9", "9", "9", "9", "9", "9", "x">>,
     <<"4", "2", "9", "4", "9", "6", "7", "2", "9", "6", "x">>}
IntTokens == Concats(IntPieces, MaxIntLen) \cup LongIntTokens
Tokens == ColorTokens \cup IntTokens

tNope == <<"n", "o", "p", "e">>
tRed == <<"f", "f", "0", "f", "0", "0">>
LineTokens == {tPX, tSIZE, tHELP, tNope, <<"7">>, <<"x">>, tRed}
TokenListsOfLines == TokenLists(LineTokens, MaxTokens)

ChannelSamples == {0, 9, 10, 15, 16, MaxChannel}
Colors ==
    {rgb(r, g, b) : r \in ChannelSamples, g \in ChannelSamples, b \in ChannelSamples}
    \cup {rgba(r, g, b, 0) : r \in ChannelSamples, g \in ChannelSamples,
                               b \in ChannelSamples}
    \cup {rgb(v, MaxChannel - v, 0) : v \in 0..MaxChannel}
    \cup {rgb(0, 0, v) : v \in 0..MaxChannel}
    \cup {rgba(MaxChannel - v, 0, v, v) : v \in 0..MaxChannel}
    \cup {rgba(0, v, 0, MaxChannel - v) : v \in 0..MaxChannel}
CoordSamples == {0, 7, 10, 768, 1024, 2147483647}
Coordinates == {NewCoordinate(x, y) : x \in CoordSamples, y \in CoordSamples}
PixelColors ==
    {rgb(v, MaxChannel - v, 15) : v \in ChannelSamples}
    \cup {rgba(0, v, MaxChannel - v, v) : v \in ChannelSamples}
Pixels == {NewPixel(p, c) : p \in Coordinates, c \in PixelColors}
Sizes == {NewSize(w, h) : w \in CoordSamples, h \in CoordSamples}

Given(kind, a) ==
    [fn |-> "input", kind |-> kind, arg |-> a, res |-> None, src |-> None]
Joined(toks) ==
    [fn |-> "input", kind |-> "line", arg |-> Join(toks), res |-> None,
     src |-> Some(toks)]
Applied(fn, kind, a, r, src) ==
    [fn |-> fn, kind |-> kind, arg |-> a, res |-> r, src |-> src]

\* the server idle, and one input for one function
CodecInit ==
    /\ ServerInit
    /\ script = NoScript
    /\ \/ \E t \in Tokens : probe = Given("token", t)
       \/ \E toks \in TokenListsOfLines : probe = Joined(toks)
       \/ \E v \in Colors : probe = Given("color", v)
       \/ \E v \in Coordinates : probe = Given("coordinate", v)
       \/ \E v \in Pixels : probe = Given("pixel", v)
       \/ \E v \in Sizes : probe = Given("size", v)

\* a text to parse: an input of that kind, or what that formatter wrote
IsText(kind, fmt) ==
    \/ probe.fn = "input" /\ probe.kind = kind
    \/ probe.fn = fmt
Text == IF probe.fn = "input" THEN probe.arg ELSE probe.res
TextKind == IF probe.fn = "input" THEN "given" ELSE "formatted"
TextSrc == IF probe.fn = "input" THEN probe.src ELSE Some(probe.arg)

\* s.parse::<Color>()
ApplyParseColor ==
    /\ IsText("token", "FmtColor")
    /\ probe' = Applied("ParseColor", TextKind, Text, ParseColor(Text), TextSrc)
    /\ UNCHANGED <<aggVars, connVars, script>>

\* s.parse::<u32>()
ApplyParseU32 ==
    /\ IsText("token", "no formatter")
    /\ probe' = Applied("ParseU32", TextKind, Text, ParseU32(Text), TextSrc)
    /\ UNCHANGED <<aggVars, connVars, script>>

\* s.parse::<Coordinate>()
ApplyParseCoordinate ==
    /\ IsText("line", "FmtCoordinate")
    /\ probe' = Applied("ParseCoordinate", TextKind, Text, ParseCoordinate(Text),
                        TextSrc)
    /\ UNCHANGED <<aggVars, connVars, script>>

\* s.parse::<Pixel>()
ApplyParsePixel ==
    /\ IsText("line", "FmtPixel")
    /\ probe' = Applied("ParsePixel", TextKind, Text, ParsePixel(Text), TextSrc)
    /\ UNCHANGED <<aggVars, connVars, script>>

\* the two `match`es of process
ApplyDispatch ==
    /\ IsText("line", "no formatter")
    /\ probe' = Applied("Dispatch", TextKind, Text, Dispatch(Text), TextSrc)
    /\ UNCHANGED <<aggVars, connVars, script>>

\* color.to_string()
ApplyFmtColor ==
    /\ probe.fn = "input" /\ probe.kind = "color"
    /\ probe' = Applied("FmtColor", "value", probe.arg, FmtColor(probe.arg), None)
    /\ UNCHANGED <<aggVars, connVars, script>>

\* coordinate.to_string()
ApplyFmtCoordinate ==
    /\ probe.fn = "input" /\ probe.kind = "coordinate"
    /\ probe' = Applied("FmtCoordinate", "value", probe.arg,
                        FmtCoordinate(probe.arg), None)
    /\ UNCHANGED <<aggVars, connVars, script>>

\* pixel.to_string()
ApplyFmtPixel ==
    /\ probe.fn = "input" /\ probe.kind = "pixel"
    /\ probe' = Applied("FmtPixel", "value", probe.arg, FmtPixel(probe.arg), None)
    /\ UNCHANGED <<aggVars, connVars, script>>

\* size.to_string()
ApplyFmtSize ==
    /\ probe.fn = "input" /\ probe.kind = "size"
    /\ probe' = Applied("FmtSize", "value", probe.arg, FmtSize(probe.arg), None)
    /\ UNCHANGED <<aggVars, connVars, script>>

CodecNext ==
    \/ ApplyParseColor
    \/ ApplyParseU32
    \/ ApplyParseCoordinate
    \/ ApplyParsePixel
    \/ ApplyDispatch
    \/ ApplyFmtColor
    \/ ApplyFmtCoordinate
    \/ ApplyFmtPixel
    \/ ApplyFmtSize
CodecSpec == CodecInit /\ [][CodecNext]_vars

(***************************************************************************)
(* Scripted runs: each client sends one line, known from the start, and    *)
(* then nothing more; no socket fails.                                     *)
(***************************************************************************)
LineSizeExtra == Join(<<tSIZE, <<"7">> >>)
LineHelpExtra == Join(<<tHELP, tNope>>)
LinePXOnly == tPX
LineLongPX == Join(<<tPX, <<"1">>, <<"2">>, tRed, <<"7">> >>)
LinePlusInt == Join(<<tPX, <<"+", "0">>, <<"0">> >>)
LineOverflow ==
    Join(<<tPX, <<"4", "2", "9", "4", "9", "6", "7", "2", "9", "6">>, <<"0">> >>)
LineOverflowDraw ==
    Join(<<tPX, <<"0">>, <<"4", "2", "9", "4", "9", "6", "7", "2", "9", "6">>,
           tRed>>)
LinePlusColor == Join(<<tPX, <<"0">>, <<"0">>, <<"+", "f", "+", "f", "+", "f">> >>)
LineSplitChar == Join(<<tPX, <<"0">>, <<"0">>, <<"f", "U+00E9", "0", "f", "f">> >>)

ScriptLines ==
    Lines \cup {LineDrawBlue, LineSizeExtra, LineHelpExtra, LinePXOnly,
                LineLongPX, LinePlusInt, LineOverflow, LineOverflowDraw,
                LinePlusColor, LineSplitChar}

ScriptInit ==
    /\ ServerInit
    /\ script \in [Conns -> ScriptLines]
    /\ probe = NoProbe

\* the client of c sends its line
Feed(c) == nlines[c] = 0 /\ NextLine(c, script[c])

ScriptNext ==
    \/ \E c \in Conns :
         \/ Feed(c)
         \/ EndOfStream(c)
         \/ ReadLock(c)
         \/ Fetch(c)
         \/ Size(c)
         \/ Write(c)
         \/ Send(c)
    \/ AggStep
    \/ Tick
ScriptSpec == ScriptInit /\ [][ScriptNext]_vars

(***************************************************************************)
(* Properties.                                                             *)
(***************************************************************************)
Reading == {c \in Conns : pc[c] \in {"fetch", "size"}}

\* C1: no handler is inside fetch or size while the aggregator applies a
\* batch; a batch is applied only under the write lock, which one task holds;
\* handlers inside fetch/size are exactly the holders of the read lock.
C1_ReadWriteExclusion ==
    /\ aggPc = "drawing" => Reading = {}
    /\ (aggPc = "drawing") = lock.writer
    /\ lock.readers = Reading

\* two handlers inside fetch/size at once, the aggregator waiting for them
C1_Witness ==
    /\ aggPc = "write_lock"
    /\ \E c1, c2 \in Conns : c1 # c2 /\ {c1, c2} \subseteq Reading

\* every pixel drawn or held by the server, in the order of its draw call
Held == drawn \o buf \o queue
Entry(c, k) == [px |-> submitted[c][k], src |-> c, k |-> k]

\* C2: every pixel a send accepted is exactly once in the queue, the batch or
\* the draw calls made, and nothing else is there.
C2_NoDropNoDup ==
    /\ \A c \in Conns : \A k \in 1..Len(submitted[c]) :
           Cardinality({i \in 1..Len(Held) : Held[i] = Entry(c, k)}) = 1
    /\ \A i \in 1..Len(Held) :
           /\ Held[i].src \in Conns
           /\ Held[i].k \in 1..Len(submitted[Held[i].src])
           /\ Held[i] = Entry(Held[i].src, Held[i].k)

\* pixels in all three places at once
C2_Witness == queue # <<>> /\ buf # <<>> /\ drawn # <<>>

AllSubmitted == \A c \in Conns : Len(submitted[c]) = MaxLines

\* C3: once every connection has submitted MaxLines draws, eventually there
\* have been NumConns * MaxLines draw calls.
C3_EventuallyApplied == AllSubmitted ~> (Len(drawn) = NumConns * MaxLines)

\* C4: a non-empty batch is not left waiting once the flush interval has
\* elapsed since the last flush: the flush is under way, or the aggregator is
\* about to run the flush test on a received pixel.
C4_NoStaleBatch ==
    (buf # <<>> /\ elapsed > FLUSH_MICROS) => ~(aggPc = "recv" /\ queue = <<>>)

IsErr(r) == r # None /\ ~r[1].ok
Busy(c) == pc[c] \notin {"next_line", "closed"}
ConnState(c) ==
    <<pc[c], line[c], pending[c], out[c], result[c], nlines[c], submitted[c]>>

\* C6: a handler at the enqueue of a Draw stays there, reading no further
\* line, while the queue holds PIXEL_BUFFER pixels; it leaves the enqueue only
\* by its pixel being appended to the queue, with no error and the connection
\* open; the queue never holds more than PIXEL_BUFFER pixels.
C6_Backpressure ==
    [][/\ Len(queue') <= PIXEL_BUFFER
       /\ \A c \in Conns : pc[c] = "send" =>
            \/ ConnState(c)' = ConnState(c)
            \/ /\ Len(queue) < PIXEL_BUFFER
               /\ queue' = Append(queue, [px |-> pending[c][1], src |-> c,
                                          k |-> Len(submitted[c]) + 1])
               /\ submitted'[c] = Append(submitted[c], pending[c][1])
               /\ pc'[c] = "next_line"
               /\ result'[c] = None
               /\ nlines'[c] = nlines[c]
               /\ out'[c] = out[c]]_vars

\* a handler suspended at the enqueue of a full queue
C6_Witness == Len(queue) = PIXEL_BUFFER /\ \E c \in Conns : pc[c] = "send"

\* C7: a malformed line ends the handler with an error, with nothing written
\* and nothing enqueued for it, and a closed connection processes nothing more.
C7_DisconnectOnMalformed ==
    [][\A c \in Conns :
         /\ \A l \in InvalidLines : NextLine(c, l) =>
              /\ out'[c] = out[c]
              /\ queue' = queue
              /\ submitted'[c] = submitted[c]
              /\ \/ pc'[c] = "closed" /\ IsErr(result'[c])
                 \/ pc'[c] = "read_lock" /\ line'[c] = l
         /\ (Busy(c) /\ line[c] \in InvalidLines) =>
              /\ out'[c] = out[c]
              /\ submitted'[c] = submitted[c]
              /\ nlines'[c] = nlines[c]
              /\ \A i \in 1..Len(queue') :
                     queue'[i].src = c => \E j \in 1..Len(queue) : queue[j] = queue'[i]
              /\ \/ pc'[c] \in {"read_lock", "fetch"} /\ line'[c] = line[c]
                 \/ pc'[c] = "closed" /\ IsErr(result'[c])
         /\ pc[c] = "closed" => ConnState(c)' = ConnState(c)]_vars

\* a connection closed by a bad coordinate before it had sent all its lines
C7_Witness ==
    \E c \in Conns :
        /\ pc[c] = "closed"
        /\ result[c] = Some(Err(<<"ParseInt", "InvalidDigit">>))
        /\ nlines[c] < MaxLines

\* C8: the step that ends one connection leaves the canvas, the queue, the
\* batch, the aggregator and every other connection as they were, and leaves
\* the lock without that connection's read guard.
C8_ErrorIsolation ==
    [][\A c \in Conns : (pc[c] # "closed" /\ pc'[c] = "closed") =>
         /\ <<grid, queue, buf, elapsed, aggPc, drawn>>'
                = <<grid, queue, buf, elapsed, aggPc, drawn>>
         /\ lock' = [lock EXCEPT !.readers = @ \ {c}]
         /\ c \notin lock'.readers
         /\ submitted'[c] = submitted[c]
         /\ out'[c] = out[c]
         /\ \A d \in Conns \ {c} : ConnState(d)' = ConnState(d)]_vars

\* a connection ended by an error while a pixel it sent waits to be drawn and
\* another connection is in the middle of a request
C8_Witness ==
    \E c, d \in Conns :
        /\ pc[c] = "closed" /\ IsErr(result[c])
        /\ \E i \in 1..Len(buf \o queue) : (buf \o queue)[i].src = c
        /\ d # c /\ Busy(d)

\* C9: the canvas changes only in the aggregator's flush; a step of a handler
\* changes neither canvas, draw calls nor batch, and changes the queue only
\* when it completes the enqueue of a Draw.
C9_SingleWritePath ==
    [][/\ (grid' # grid \/ drawn' # drawn) =>
            /\ aggPc = "drawing" /\ aggPc' = "recv"
            /\ \A c \in Conns : ConnState(c)' = ConnState(c)
       /\ \A c \in Conns : ConnState(c)' # ConnState(c) =>
            /\ grid' = grid /\ drawn' = drawn /\ buf' = buf
            /\ pc[c] # "send" => queue' = queue]_vars

\* the canvas changed by a flush, and a response written by a handler
C9_Witness ==
    /\ grid # VecGridNew(NewSize(GridWidth, GridHeight))
    /\ \E c \in Conns : out[c] # <<>>

\* the color of the last draw call at a coordinate, black before any
LastDrawn(coord) ==
    LET at == {i \in 1..Len(drawn) : drawn[i].px.coordinate = coord} IN
    IF at = {} THEN rgb(0, 0, 0)
    ELSE drawn[CHOOSE i \in at : \A j \in at : j <= i].px.color

\* C10: the response to a Query is the color of the last draw call made
\* before the read at that coordinate: draws of flushed batches count, later
\* ones over earlier ones; pixels still queued or batched do not.
C10_ReadReflectsFlushed ==
    [][\A c \in Conns : (pc[c] = "fetch" /\ pc'[c] = "write") =>
         LET coord == ParseCoordinate(line[c]).val IN
         pending'[c] =
            Some(WithNewline(FmtPixel(NewPixel(coord, LastDrawn(coord)))))]_vars

\* a stale read: the response to a Query does not show the pixel the same
\* connection submitted before and which still waits in the batch or the queue
C10_Witness ==
    \E c \in Conns :
        /\ pc[c] = "write" /\ Dispatch(line[c]) = "query"
        /\ \E i \in 1..Len(buf \o queue) :
             LET e == (buf \o queue)[i] IN
             /\ e.src = c
             /\ e.px.coordinate = ParseCoordinate(line[c]).val
             /\ pending[c] # Some(WithNewline(FmtPixel(e.px)))

\* the handler of c is at the write of the response to a line of this kind
Writing(c, kind) == pc[c] = "write" /\ Dispatch(line[c]) = kind

\* C11: a Query whose coordinate the canvas has is answered with exactly the
\* formatted pixel and one newline, written whole unless the socket fails; a
\* Query the canvas has no pixel for writes nothing and the handler goes on
\* to the next line with the connection open.
C11_QueryResponse ==
    [][\A c \in Conns :
         /\ (pc[c] = "fetch" /\ ParseCoordinate(line[c]).ok) =>
              LET pixel == GridFetch(grid, ParseCoordinate(line[c]).val) IN
              \/ ConnState(c)' = ConnState(c)
              \/ /\ out'[c] = out[c]
                 /\ result'[c] = None
                 /\ IF pixel = None
                    THEN pc'[c] = "next_line"
                    ELSE /\ pc'[c] = "write"
                         /\ pending'[c] = Some(FmtPixel(pixel[1]) \o <<"\n">>)
         /\ Writing(c, "query") =>
              \/ ConnState(c)' = ConnState(c)
              \/ /\ out'[c] = Append(out[c], pending[c][1])
                 /\ pc'[c] = "next_line"
                 /\ result'[c] = None
              \/ /\ out'[c] = out[c]
                 /\ pc'[c] = "closed"
                 /\ result'[c] = Some(Err(<<"Io">>))]_vars

\* C12: the response to SIZE is exactly "SIZE <w> <h>" and one newline,
\* written whole unless the socket fails, and the connection stays open.
C12_SizeResponse ==
    [][\A c \in Conns :
         /\ pc[c] = "size" =>
              \/ ConnState(c)' = ConnState(c)
              \/ /\ pc'[c] = "write"
                 /\ pending'[c] =
                       Some(tSIZE \o <<" ">> \o DecStr(GridWidth) \o <<" ">>
                            \o DecStr(GridHeight) \o <<"\n">>)
                 /\ out'[c] = out[c]
                 /\ result'[c] = None
         /\ Writing(c, "size") =>
              \/ ConnState(c)' = ConnState(c)
              \/ /\ out'[c] = Append(out[c], pending[c][1])
                 /\ pc'[c] = "next_line"
                 /\ result'[c] = None
              \/ /\ out'[c] = out[c]
                 /\ pc'[c] = "closed"
                 /\ result'[c] = Some(Err(<<"Io">>))]_vars

\* the client of c has sent its scripted line
Sent(c) == nlines[c] > 0

\* C13: a SIZE or HELP line with a further token is rejected: nothing is
\* written for it and the connection is closed with an error, at once; SIZE
\* and HELP alone are not rejected.
C13_SizeHelpArity ==
    \A c \in Conns :
        /\ (Sent(c) /\ script[c] \in {LineSizeExtra, LineHelpExtra}) =>
              /\ pc[c] = "closed"
              /\ IsErr(result[c])
              /\ out[c] = <<>>
        /\ (Sent(c) /\ script[c] \in {LineSize, LineHelp}) => ~IsErr(result[c])

\* the probe holds the result of fn for a line given as a list of tokens
OfLine(fn) == probe.fn = fn /\ probe.kind = "given" /\ probe.src # None
\* the first n tokens are PX, coordinates and color as far as they go
ValidUpTo(toks, n) ==
    /\ Len(toks) >= n
    /\ n >= 1 => toks[1] = tPX
    /\ n >= 2 => ParseU32(toks[2]).ok
    /\ n >= 3 => ParseU32(toks[3]).ok
    /\ n >= 4 => ParseColor(toks[4]).ok
\* the tokens after the verb are valid coordinates and color as far as they go
ValidAfterVerb(toks, n) ==
    /\ Len(toks) = n
    /\ n >= 2 => ParseU32(toks[2]).ok
    /\ n >= 3 => ParseU32(toks[3]).ok
    /\ n >= 4 => ParseColor(toks[4]).ok
WrongFormat == Err(<<"WrongFormat">>)

\* C14: a PX line goes to Query with exactly two tokens after the verb, to
\* Draw with exactly three, and is rejected with any other count; a Pixel
\* parses exactly from `PX <x> <y> <color>` and a Coordinate exactly from
\* `PX <x> <y>`; with valid tokens, a wrong verb, a missing token or an
\* extra token gives WrongFormat.
C14_PXArity ==
    /\ OfLine("Dispatch") =>
         LET toks == probe.src[1] IN
         (toks # <<>> /\ toks[1] = tPX) =>
             probe.res = CASE Len(toks) - 1 = 2 -> "query"
                           [] Len(toks) - 1 = 3 -> "draw"
                           [] OTHER -> "unknown"
    /\ OfLine("ParsePixel") =>
         LET toks == probe.src[1] IN
         /\ probe.res.ok = (Len(toks) = 4 /\ ValidUpTo(toks, 4))
         /\ probe.res.ok =>
              probe.res.val =
                 NewPixel(NewCoordinate(ParseU32(toks[2]).val, ParseU32(toks[3]).val),
                          ParseColor(toks[4]).val)
         /\ (toks # <<>> /\ toks[1] # tPX /\ ValidAfterVerb(toks, 4)) =>
              probe.res = WrongFormat
         /\ (\E n \in 1..3 : Len(toks) = n /\ ValidUpTo(toks, n)) =>
              probe.res = WrongFormat
         /\ (Len(toks) > 4 /\ ValidUpTo(toks, 4)) => probe.res = WrongFormat
    /\ OfLine("ParseCoordinate") =>
         LET toks == probe.src[1] IN
         /\ probe.res.ok = (Len(toks) = 3 /\ ValidUpTo(toks, 3))
         /\ probe.res.ok =>
              probe.res.val =
                 NewCoordinate(ParseU32(toks[2]).val, ParseU32(toks[3]).val)
         /\ (toks # <<>> /\ toks[1] # tPX /\ ValidAfterVerb(toks, 3)) =>
              probe.res = WrongFormat
         /\ (\E n \in 1..2 : Len(toks) = n /\ ValidUpTo(toks, n)) =>
              probe.res = WrongFormat
         /\ (Len(toks) > 3 /\ ValidUpTo(toks, 3)) => probe.res = WrongFormat

\* a Pixel parse refused for one token after a valid `PX <x> <y> <color>`
C14_Witness ==
    /\ OfLine("ParsePixel")
    /\ probe.src[1] = <<tPX, <<"7">>, <<"7">>, tRed, <<"7">> >>
    /\ probe.res = WrongFormat

\* the probe holds the result of fn for a token given as such
OfToken(fn) == probe.fn = fn /\ probe.kind = "given"
AllHexDigits(t) == \A i \in 1..Len(t) : IsHexDigit(t[i])

\* C15: a color token parses if and only if it is 6 or 8 hexadecimal digits,
\* to a color without alpha for 6 and with alpha for 8; any other token
\* gives the wrong-size error unless it has 6 or 8 characters, and then the
\* bad-digits error; no token makes the parse panic.
C15_ColorGrammar ==
    OfToken("ParseColor") =>
        LET t == probe.arg IN
        /\ ~IsPanic(probe.res)
        /\ probe.res.ok = (Len(t) \in {6, 8} /\ AllHexDigits(t))
        /\ probe.res.ok => (probe.res.val.a = None) = (Len(t) = 6)
        /\ ~probe.res.ok =>
              probe.res.err =
                 IF Len(t) \in {6, 8}
                 THEN <<"ParseColor", "ParseInt", "InvalidDigit">>
                 ELSE <<"ParseColor", "WrongSize">>

AllDecDigits(t) == t # <<>> /\ \A i \in 1..Len(t) : t[i] \in {DecDigits[k] : k \in 1..10}
Unsigned(t) == IF t # <<>> /\ t[1] = "+" THEN Tail(t) ELSE t
RECURSIVE Significant(_)
\* a digit string without its leading zeros
Significant(t) == IF t # <<>> /\ t[1] = "0" THEN Significant(Tail(t)) ELSE t
I32MaxText == <<"2", "1", "4", "7", "4", "8", "3", "6", "4", "7">>
JustAboveU32 ==
    {<<"4", "2", "9", "4", "9", "6", "7", "2", "9", "6">>,
     <<"4", "2", "9", "4", "9", "6", "7", "3", "0", "0">>}
\* digit strings of a value up to i32::MAX, the largest held here
Small(t) == Len(Significant(t)) <= 9 \/ Significant(t) = I32MaxText
\* digit strings of a value above u32::MAX
Large(t) == Len(Significant(t)) >= 11 \/ Significant(t) \in JustAboveU32

\* C16 as stated: a token that parses as a coordinate is made of decimal
\* digits only.
C16_DigitsOnly == (OfToken("ParseU32") /\ probe.res.ok) => AllDecDigits(probe.arg)

\* C16: a coordinate token parses if and only if it is one or more decimal
\* digits, after at most one leading "+", of a value within u32, and then to
\* that value; any other token gives a ParseInt error, a value above
\* u32::MAX the overflow error, never a panic or a wrapped value; a Pixel or
\* Coordinate parse fails with the ParseInt error of its first bad coordinate.
C16_CoordinateTokens ==
    /\ OfToken("ParseU32") =>
         LET t == probe.arg
             d == Unsigned(t) IN
         /\ ~IsPanic(probe.res)
         /\ AllDecDigits(d) => Small(d) \/ Large(d)
         /\ probe.res.ok = (AllDecDigits(d) /\ Small(d))
         /\ probe.res.ok =>
              /\ probe.res.val >= 0
              /\ DecStr(probe.res.val) =
                    (IF Significant(d) = <<>> THEN <<"0">> ELSE Significant(d))
         /\ ~probe.res.ok => probe.res.err[1] = "ParseInt"
         /\ (AllDecDigits(d) /\ Large(d)) =>
              probe.res = Err(<<"ParseInt", "PosOverflow">>)
    /\ (OfLine("ParsePixel") \/ OfLine("ParseCoordinate")) =>
         LET toks == probe.src[1] IN
         /\ (Len(toks) >= 2 /\ toks[1] = tPX /\ ~ParseU32(toks[2]).ok) =>
              probe.res = Err(<<"ParseInt", "InvalidDigit">>)
         /\ (Len(toks) >= 3 /\ toks[1] = tPX /\ ParseU32(toks[2]).ok
               /\ ~ParseU32(toks[3]).ok) =>
              probe.res = Err(<<"ParseInt", "InvalidDigit">>)

\* a token one above u32::MAX refused with the overflow error
C16_Witness ==
    /\ OfToken("ParseU32")
    /\ probe.arg = <<"4", "2", "9", "4", "9", "6", "7", "2", "9", "6">>
    /\ probe.res = Err(<<"ParseInt", "PosOverflow">>)

UnknownVerbLines == {LineUnknownVerb}
WrongArityLines == {LineShortPX, LinePXOnly, LineLongPX}
BadIntegerLines == {LineBadInt, LineBadIntDraw, LineOverflow, LineOverflowDraw}
BadColorLines == {LineBadColor, LineShortColor}
Cause(l) ==
    CASE l \in UnknownVerbLines -> "unknown verb"
      [] l \in WrongArityLines -> "wrong arity"
      [] l \in BadIntegerLines -> "bad integer"
      [] l \in BadColorLines -> "bad color"
      [] OTHER -> "none"
\* the handler of c has returned an error for its line, a line with a cause
Rejected(c) == pc[c] = "closed" /\ IsErr(result[c]) /\ Cause(script[c]) # "none"

\* C17: two lines rejected for different causes (unknown verb, wrong arity,
\* bad integer, bad color) are rejected with different error values.
C17_DistinctReasons ==
    \A c, d \in Conns :
        (Rejected(c) /\ Rejected(d) /\ Cause(script[c]) # Cause(script[d])) =>
            result[c] # result[d]

\* the probe holds the result of parsing what a formatter wrote
OfFormatted(fn) == probe.fn = fn /\ probe.kind = "formatted"

\* C18: parsing the formatted form of a Color, a Coordinate or a Pixel gives
\* the value back, a color without alpha as one without and a color with
\* alpha as one with.
C18_RoundTrip ==
    /\ OfFormatted("ParseColor") =>
         /\ probe.res = Ok(probe.src[1])
         /\ (probe.res.val.a = None) = (probe.src[1].a = None)
    /\ OfFormatted("ParseCoordinate") => probe.res = Ok(probe.src[1])
    /\ OfFormatted("ParsePixel") =>
         /\ probe.res = Ok(probe.src[1])
         /\ (probe.res.val.color.a = None) = (probe.src[1].color.a = None)

\* a color with alpha and a channel below 16 read back from its text
C18_Witness ==
    /\ OfFormatted("ParseColor")
    /\ probe.src = Some(rgba(0, 15, 0, 240))
    /\ probe.arg = <<"0", "0", "0", "f", "0", "0", "f", "0">>
    /\ probe.res = Ok(rgba(0, 15, 0, 240))

LowerHexChars == {HexDigits[k] : k \in 1..16}
LowerHexValue(ch) == (CHOOSE k \in 1..16 : HexDigits[k] = ch) - 1
\* the channels of a color in the order r, g, b, a
ChannelsOf(c) == IF c.a = None THEN <<c.r, c.g, c.b>> ELSE <<c.r, c.g, c.b, c.a[1]>>
\* text is two lowercase hex digits for each channel of the color, in order
IsHexOf(text, c) ==
    /\ Len(text) = 2 * Len(ChannelsOf(c))
    /\ Len(text) = (IF c.a = None THEN 6 ELSE 8)
    /\ \A i \in 1..Len(text) : text[i] \in LowerHexChars
    /\ \A k \in 1..Len(ChannelsOf(c)) :
           16 * LowerHexValue(text[2 * k - 1]) + LowerHexValue(text[2 * k])
               = ChannelsOf(c)[k]
RECURSIVE DecimalValue(_)
DecimalValue(t) ==
    IF t = <<>> THEN 0
    ELSE DecimalValue(SubSeq(t, 1, Len(t) - 1)) * 10 + DecVal(t[Len(t)])
\* text is the decimal numeral of n, without sign or leading zeros
IsDecimalOf(text, n) ==
    /\ AllDecDigits(text)
    /\ Len(text) > 1 => text[1] # "0"
    /\ DecimalValue(text) = n

\* C19: a Coordinate formats as "PX", x and y in decimal, a Pixel as the same
\* followed by its color, single spaces between; a color formats as two
\* lowercase zero-padded hex digits a channel in the order r, g, b, a: 6
\* digits without alpha, 8 with.
C19_CanonicalFormat ==
    /\ probe.fn = "FmtColor" => IsHexOf(probe.res, probe.arg)
    /\ probe.fn = "FmtCoordinate" =>
         LET toks == split_whitespace(probe.res) IN
         /\ Len(toks) = 3 /\ Join(toks) = probe.res
         /\ toks[1] = tPX
         /\ IsDecimalOf(toks[2], probe.arg.x)
         /\ IsDecimalOf(toks[3], probe.arg.y)
    /\ probe.fn = "FmtPixel" =>
         LET toks == split_whitespace(probe.res) IN
         /\ Len(toks) = 4 /\ Join(toks) = probe.res
         /\ toks[1] = tPX
         /\ IsDecimalOf(toks[2], probe.arg.coordinate.x)
         /\ IsDecimalOf(toks[3], probe.arg.coordinate.y)
         /\ IsHexOf(toks[4], probe.arg.color)

\* the channel 0x0f written as "0f"
C19_Witness ==
    /\ probe.fn = "FmtColor"
    /\ probe.arg = rgb(15, 240, 0)
    /\ probe.res = <<"0", "f", "f", "0", "0", "0">>

\* text is "SIZE", w and h in decimal, single spaces between
IsSizeText(text, sz) ==
    LET toks == split_whitespace(text) IN
    /\ Len(toks) = 3 /\ Join(toks) = text
    /\ toks[1] = tSIZE
    /\ IsDecimalOf(toks[2], sz.x)
    /\ IsDecimalOf(toks[3], sz.y)

\* C20: the string form of a Size is "SIZE <w> <h>" followed by a newline,
\* as the test display_size asserts for Size(1024, 768).
C20_SizeDisplay ==
    probe.fn = "FmtSize" =>
        /\ probe.res # <<>>
        /\ probe.res[Len(probe.res)] = "\n"
        /\ IsSizeText(SubSeq(probe.res, 1, Len(probe.res) - 1), probe.arg)

RECURSIVE SubmittedBy(_)
\* the number of pixels the send calls of these connections accepted
SubmittedBy(cs) ==
    IF cs = {} THEN 0
    ELSE LET c == CHOOSE d \in cs : TRUE IN
         Len(submitted[c]) + SubmittedBy(cs \ {c})

\* C21: the queue never holds more than PIXEL_BUFFER pixels, the batch never
\* more than PIXEL_BUFFER + 1, and a batch above PIXEL_BUFFER is on its way
\* to the canvas, not waiting for a further pixel; so the pixels accepted but
\* not yet drawn never number more than 2 * PIXEL_BUFFER + 1.
C21_BoundedBuffering ==
    /\ Len(queue) <= PIXEL_BUFFER
    /\ Len(buf) <= PIXEL_BUFFER + 1
    /\ Len(buf) > PIXEL_BUFFER => aggPc \in {"write_lock", "drawing"}
    /\ SubmittedBy(Conns) - Len(drawn) = Len(queue) + Len(buf)
    /\ SubmittedBy(Conns) - Len(drawn) <= 2 * PIXEL_BUFFER + 1

\* the queue full and the batch one above PIXEL_BUFFER at once
C21_Witness == Len(queue) = PIXEL_BUFFER /\ Len(buf) = PIXEL_BUFFER + 1

\* handlers at an await: the next line, the read lock, the socket, the queue
Suspended(c) == pc[c] \in {"next_line", "read_lock", "write", "send"}
\* handlers kept in send by a full queue
WaitingForRoom == {c \in Conns : pc[c] = "send" /\ ~HasRoom(queue)}

\* C22: a handler at an await, or closed, does not hold the read lock; the
\* holders are inside fetch or size, which wait for nothing and release the
\* lock when they end; so an aggregator waiting for the write lock with no
\* handler inside fetch or size can take it, and while a handler waits for
\* room in the queue the aggregator can take a step or a holder of the lock
\* is inside fetch or size.
C22_NoLockAcrossAwait ==
    /\ \A c \in Conns : (Suspended(c) \/ pc[c] = "closed") => c \notin lock.readers
    /\ \A c \in lock.readers : pc[c] \in {"fetch", "size"}
    /\ (aggPc = "write_lock" /\ Reading = {}) => ENABLED AggWriteLock
    /\ WaitingForRoom # {} =>
          \/ ENABLED AggStep
          \/ \E d \in lock.readers : pc[d] \in {"fetch", "size"}

\* a handler waits for room in the queue while the aggregator waits for the
\* write lock, which a handler inside fetch or size holds
C22_Witness ==
    /\ WaitingForRoom # {}
    /\ aggPc = "write_lock"
    /\ ~CanWrite(lock)
    /\ lock.readers # {}

\* this step is a receive: the batch grows by the head of the queue
Received == queue # <<>> /\ buf' = Append(buf, Head(queue)) /\ queue' = Tail(queue)
\* this step is a flush: the aggregator leaves the drawing
Flushed == aggPc = "drawing" /\ aggPc' # "drawing"

\* C23: the timer starts at zero and only a flush sets it back; a receive
\* leaves it alone and is followed at once by the flush test, so a pixel
\* received after the flush interval has elapsed takes the aggregator to the
\* flush, which receives nothing more, draws the whole batch with that
\* pixel, empties the batch and resets the timer.
C23_FlushTimer ==
    /\ elapsed = 0
    /\ [][/\ elapsed' # elapsed => (elapsed' = elapsed + 1 \/ Flushed)
          /\ buf' # buf => (Received \/ Flushed)
          /\ Received =>
               /\ aggPc = "recv"
               /\ elapsed' = elapsed
               /\ (aggPc' = "write_lock") =
                     (Len(buf') > PIXEL_BUFFER \/ elapsed > FLUSH_MICROS)
               /\ aggPc' \in {"write_lock", "recv"}
               /\ elapsed > FLUSH_MICROS => aggPc' = "write_lock"
          /\ aggPc = "write_lock" =>
               /\ aggPc' \in {"write_lock", "drawing"}
               /\ buf' = buf /\ drawn' = drawn /\ grid' = grid
               /\ Len(queue') >= Len(queue)
          /\ aggPc = "drawing" =>
               \/ aggPc' = "drawing" /\ buf' = buf /\ drawn' = drawn /\ grid' = grid
                    /\ Len(queue') >= Len(queue)
               \/ /\ aggPc' = "recv"
                  /\ drawn' = drawn \o buf
                  /\ grid' = DrawAll(grid, buf)
                  /\ buf' = <<>>
                  /\ elapsed' = 0]_vars

\* after an earlier flush, a batch kept from before the interval ran out is
\* being drawn together with the pixel received after it ran out
C23_Witness ==
    /\ aggPc = "drawing"
    /\ drawn # <<>>
    /\ Len(buf) > 1
    /\ elapsed > FLUSH_MICROS

====
